---- MODULE Spec2Model ----
(***************************************************************************)
(* License verification / activation / message counting, as implemented by *)
(* server/routes/license.ts over a Firestore-like document store.          *)
(*                                                                         *)
(* Time is an integer clock.  One day is DayLen clock units, so that the   *)
(* ceiling in getDaysRemaining is observable.  Date strings written by     *)
(* toISOString() are represented by the instant they denote; an absent     *)
(* date makes toISOString() throw.                                         *)
(***************************************************************************)
EXTENDS Integers, Sequences, FiniteSets, TLC

VARIABLES users, licenses, licenseKeys, warnings, maintenance, now,
          req, resp, elapsed, repeated,
          procs, adminClaims, lastRole, authResp, keyPair, pairOut

vars == <<users, licenses, licenseKeys, warnings, maintenance, now,
          req, resp, elapsed, repeated,
          procs, adminClaims, lastRole, authResp, keyPair, pairOut>>

store == <<users, licenses, licenseKeys, warnings, maintenance>>

\* the request-by-request view of the license routes
serial == <<req, resp, elapsed, repeated>>

\* overlapping requests (procs), the identity provider (adminClaims,
\* lastRole, authResp) and key normalization (keyPair, pairOut)
others == <<procs, adminClaims, lastRole, authResp, keyPair, pairOut>>

-----------------------------------------------------------------------------
(* Bounds of the model *)

DayLen == 2
MaxNow == 3
MaxCount == 1

(* Program constant: the free-tier message ceiling *)
FreeLimit == 10

-----------------------------------------------------------------------------
(* Representation of JavaScript values *)

\* an absent / undefined numeric field
Absent == -1
\* an absent / empty string field (falsy in JavaScript)
Unset == ""
\* a document that does not exist (snapshot.data() is undefined)
NoDoc == [exists |-> FALSE]
\* no request yet
None == [op |-> "none"]

\* x || 0 on a numeric field
OrZero(x) == IF x = Absent THEN 0 ELSE x
\* a < b in JavaScript, where undefined compares false with everything
JsLess(a, b) == a # Absent /\ b # Absent /\ a < b

UserIds == {"u1", "u2"}
Emails == {"a@x", "b@x", "ghost@x"}
YearLen == 365 * DayLen

KeyExpSoon == MaxNow - 1
KeyExpLater == 8 * DayLen

-----------------------------------------------------------------------------
(* License Evaluator (lib/licenseUtils) *)

\* true iff now > expiresAt
isLicenseExpired(expiresAt, t) == t > expiresAt

\* ceiling of (expiresAt - now) in whole days; zero or negative when expired
getDaysRemaining(expiresAt, t) == -((t - expiresAt) \div DayLen)

\* valid is false if banned, suspended, expired on a paid plan, or when the
\* message ceiling is reached; the reason names the first cause.  The
\* caller passes plan, messageCount || 0, expiresAt and the two flags; the
\* ceiling is the License record's messageLimit and the clock is explicit.
validateLicense(plan, messageCount, messageLimit, expiresAt, isBanned, isSuspended, t) ==
    IF isBanned THEN [valid |-> FALSE, reason |-> "banned"]
    ELSE IF isSuspended THEN [valid |-> FALSE, reason |-> "suspended"]
    ELSE IF isLicenseExpired(expiresAt, t) /\ plan # "Gratuit"
         THEN [valid |-> FALSE, reason |-> "expired"]
    ELSE IF messageCount >= messageLimit
         THEN [valid |-> FALSE, reason |-> "limit"]
    ELSE [valid |-> TRUE, reason |-> "ok"]

-----------------------------------------------------------------------------
(* Alerts of handleLicenseVerify *)

ExpiredAlert ==
    [type |-> "modal", title |-> "Licence Expiree", severity |-> "critical",
     dismissible |-> FALSE, days |-> 0, reason |-> Unset]

ExpiresSoonAlert(daysRemaining) ==
    [type |-> "banner", title |-> "Licence Expires Bientot", severity |-> "warning",
     dismissible |-> TRUE, days |-> daysRemaining, reason |-> Unset]

BannedAlert(banReason) ==
    [type |-> "modal", title |-> "Compte Banni", severity |-> "critical",
     dismissible |-> FALSE, days |-> 0,
     reason |-> IF banReason = Unset THEN "Non specifiee" ELSE banReason]

SuspendedAlert ==
    [type |-> "modal", title |-> "Compte Suspendu", severity |-> "critical",
     dismissible |-> FALSE, days |-> 0, reason |-> Unset]

ExpiryAlertsNoPlanCheck(isExpired, plan, daysRemaining) ==
    IF isExpired THEN <<ExpiredAlert>>
    ELSE IF daysRemaining <= 7 /\ daysRemaining > 0
         THEN <<ExpiresSoonAlert(daysRemaining)>>
    ELSE <<>>

ExpiryAlertsOffByOne(isExpired, plan, daysRemaining) ==
    IF isExpired /\ plan # "Gratuit" THEN <<ExpiredAlert>>
    ELSE IF daysRemaining < 7 /\ daysRemaining > 0
         THEN <<ExpiresSoonAlert(daysRemaining)>>
    ELSE <<>>

ExpiryAlertsNoExpired(isExpired, plan, daysRemaining) ==
    IF daysRemaining <= 7 /\ daysRemaining > 0
         THEN <<ExpiresSoonAlert(daysRemaining)>>
    ELSE <<>>

\* the if / else-if on expiry
ExpiryAlerts(isExpired, plan, daysRemaining) ==
    IF isExpired /\ plan # "Gratuit" THEN <<ExpiredAlert>>
    ELSE IF daysRemaining <= 7 /\ daysRemaining > 0
         THEN <<ExpiresSoonAlert(daysRemaining)>>
    ELSE <<>>

BanAlerts(userData) ==
    IF userData.isBanned THEN <<BannedAlert(userData.banReason)>> ELSE <<>>

SuspendAlerts(userData) ==
    IF userData.isSuspended THEN <<SuspendedAlert>> ELSE <<>>

VerifyAlertsBanFirst(isExpired, plan, daysRemaining, userData) ==
    BanAlerts(userData) \o ExpiryAlerts(isExpired, plan, daysRemaining)
    \o SuspendAlerts(userData)

\* alerts, in the order of the three push sites
VerifyAlerts(isExpired, plan, daysRemaining, userData) ==
    ExpiryAlerts(isExpired, plan, daysRemaining)
    \o BanAlerts(userData) \o SuspendAlerts(userData)

-----------------------------------------------------------------------------
(* Store lookups *)

\* where("email", "==", email): the ids of the matching user documents
UsersByEmail(email) == {u \in UserIds : users[u].email = email}

\* usersSnapshot.docs[0]
FirstUser(email) == CHOOSE u \in UsersByEmail(email) : TRUE

\* userData.id || userRef.id
LicenseOwner(uid) == IF users[uid].id # Unset THEN users[uid].id ELSE uid

\* where("isRead", "==", false), each document with its id
UnreadWarnings(owner) == {w \in warnings[owner] : ~w.isRead}

\* configSnapshot.data()?.enabled || false, false when the read throws
getMaintenanceMode(readFails) ==
    IF readFails THEN FALSE
    ELSE IF maintenance = NoDoc THEN FALSE
    ELSE maintenance.enabled

-----------------------------------------------------------------------------
(* handleLicenseVerify *)

ErrorBody(msg) == [error |-> msg]
InvalidBody(msg) == [valid |-> FALSE, error |-> msg]

NoLicenseVerdictLimitInclusive(userData, t, maintenanceMode) ==
    [valid |-> FALSE,
     plan |-> "Gratuit",
     messageLimit |-> FreeLimit,
     messageCount |-> OrZero(userData.messageCount),
     canSendMessage |-> OrZero(userData.messageCount) <= FreeLimit,
     expiresAt |-> t + YearLen,
     warnings |-> {},
     isBanned |-> userData.isBanned,
     isSuspended |-> userData.isSuspended,
     alerts |-> <<>>,
     maintenanceMode |-> maintenanceMode]

\* the verdict synthesized when the user has no License record
NoLicenseVerdict(userData, t, maintenanceMode) ==
    [valid |-> FALSE,
     plan |-> "Gratuit",
     messageLimit |-> FreeLimit,
     messageCount |-> OrZero(userData.messageCount),
     canSendMessage |-> OrZero(userData.messageCount) < FreeLimit,
     expiresAt |-> t + YearLen,
     warnings |-> {},
     isBanned |-> userData.isBanned,
     isSuspended |-> userData.isSuspended,
     alerts |-> <<>>,
     maintenanceMode |-> maintenanceMode]

LicenseVerdictNoExpiryGate(userData, licenseData, unread, t, maintenanceMode) ==
    LET isExpired == isLicenseExpired(licenseData.expiresAt, t)
        daysRemaining == getDaysRemaining(licenseData.expiresAt, t)
        validation == validateLicense(licenseData.plan,
                                      OrZero(licenseData.messageCount),
                                      licenseData.messageLimit,
                                      licenseData.expiresAt,
                                      userData.isBanned,
                                      userData.isSuspended, t)
        alerts == ExpiryAlerts(isExpired, licenseData.plan, daysRemaining)
                  \o BanAlerts(userData) \o SuspendAlerts(userData)
    IN  [valid |-> validation.valid,
         plan |-> licenseData.plan,
         messageLimit |-> OrZero(licenseData.messageLimit),
         messageCount |-> OrZero(licenseData.messageCount),
         canSendMessage |-> /\ validation.valid
                            /\ JsLess(licenseData.messageCount, licenseData.messageLimit),
         expiresAt |-> licenseData.expiresAt,
         warnings |-> unread,
         isBanned |-> userData.isBanned,
         isSuspended |-> userData.isSuspended,
         alerts |-> alerts,
         maintenanceMode |-> maintenanceMode]

\* the verdict computed from an existing License record
LicenseVerdict(userData, licenseData, unread, t, maintenanceMode) ==
    LET isExpired == isLicenseExpired(licenseData.expiresAt, t)
        daysRemaining == getDaysRemaining(licenseData.expiresAt, t)
        validation == validateLicense(licenseData.plan,
                                      OrZero(licenseData.messageCount),
                                      licenseData.messageLimit,
                                      licenseData.expiresAt,
                                      userData.isBanned,
                                      userData.isSuspended, t)
        alerts == VerifyAlerts(isExpired, licenseData.plan, daysRemaining, userData)
    IN  [valid |-> validation.valid,
         plan |-> licenseData.plan,
         messageLimit |-> OrZero(licenseData.messageLimit),
         messageCount |-> OrZero(licenseData.messageCount),
         canSendMessage |-> /\ validation.valid
                            /\ JsLess(licenseData.messageCount, licenseData.messageLimit)
                            /\ ~isExpired,
         expiresAt |-> licenseData.expiresAt,
         warnings |-> unread,
         isBanned |-> userData.isBanned,
         isSuspended |-> userData.isSuspended,
         alerts |-> alerts,
         maintenanceMode |-> maintenanceMode]

\* fail: "none", "store" (a users / license / warnings read throws) or
\* "maintenance" (the config read throws and is swallowed)
VerifyResponse(email, deviceId, fail) ==
    IF email = Unset \/ deviceId = Unset
    THEN [status |-> 400, body |-> InvalidBody("Email and device ID are required")]
    ELSE IF fail = "store"
    THEN [status |-> 500, body |-> InvalidBody("License verification failed")]
    ELSE IF UsersByEmail(email) = {}
    THEN [status |-> 404, body |-> InvalidBody("User not found")]
    ELSE LET uid == FirstUser(email)
             userData == users[uid]
             owner == LicenseOwner(uid)
             licenseData == licenses[owner]
             maintenanceMode == getMaintenanceMode(fail = "maintenance")
         IN  IF licenseData = NoDoc
             THEN [status |-> 200,
                   body |-> NoLicenseVerdict(userData, now, maintenanceMode)]
             ELSE [status |-> 200,
                   body |-> LicenseVerdict(userData, licenseData,
                                           UnreadWarnings(owner), now,
                                           maintenanceMode)]

VerifyWritesMarkRead(email) ==
    /\ warnings' = [u \in UserIds |->
                      IF u \in UsersByEmail(email)
                      THEN {[w EXCEPT !.isRead = TRUE] : w \in warnings[u]}
                      ELSE warnings[u]]
    /\ UNCHANGED <<users, licenses, licenseKeys, maintenance>>

\* verify only reads the store
VerifyWrites(email) == UNCHANGED store

\* req.body of the request being answered, with the fault injected into it
Request(op, email, licenseKey, deviceId, fail) ==
    [op |-> op, email |-> email, licenseKey |-> licenseKey,
     deviceId |-> deviceId, fail |-> fail]

\* res.status(status).json(body)
Response(status, body) == [status |-> status, body |-> body]

handleLicenseVerify(email, deviceId, fail) ==
    LET r == VerifyResponse(email, deviceId, fail) IN
    /\ req' = Request("verify", email, <<>>, deviceId, fail)
    /\ resp' = Response(r.status, r.body)
    /\ VerifyWrites(email)
    /\ elapsed' = FALSE
    /\ repeated' = (r.status = 200 /\ req.op = "verify" /\ resp.status = 200
                     /\ req.email = email)
    /\ UNCHANGED <<now, others>>

-----------------------------------------------------------------------------
(* handleLicenseActivate *)

KeyIds == 1..5

\* toUpperCase on one character of the key alphabet
UpperChar(c) == CASE c = "a" -> "A" [] c = "b" -> "B" [] OTHER -> c

RECURSIVE StripDashes(_)
\* replace(/-/g, "")
StripDashes(k) ==
    IF k = <<>> THEN <<>>
    ELSE IF Head(k) = "-" THEN StripDashes(Tail(k))
    ELSE <<Head(k)>> \o StripDashes(Tail(k))

ToUpperCase(k) == [i \in 1..Len(k) |-> UpperChar(k[i])]

NormalizeKeyKeepsCase(licenseKey) == StripDashes(licenseKey)

\* licenseKey.replace(/-/g, "").toUpperCase()
NormalizeKey(licenseKey) == ToUpperCase(StripDashes(licenseKey))

\* where("key", "==", clean), where("isActive", "==", true)
MatchingKeys(clean) ==
    {k \in KeyIds : licenseKeys[k].key = clean /\ licenseKeys[k].isActive}

\* licenseKeysSnapshot.docs[0]
FirstKey(clean) == CHOOSE k \in MatchingKeys(clean) :
                       \A j \in MatchingKeys(clean) : k <= j

OwnedByOtherNeverChecked(keyData, userId) == FALSE

\* licenseKeyData.usedBy && licenseKeyData.usedBy !== userId
OwnedByOther(keyData, userId) ==
    keyData.usedBy # Unset /\ keyData.usedBy # userId

NewLicenseKeepsCount(old, keyData, clean, userId, t) ==
    [exists |-> TRUE,
     plan |-> keyData.plan,
     licenseKey |-> clean,
     expiresAt |-> keyData.expiresAt,
     isActive |-> TRUE,
     messageCount |-> IF old = NoDoc THEN 0 ELSE old.messageCount,
     messageLimit |-> OrZero(keyData.messageLimit),
     lastResetDate |-> t,
     userId |-> IF old = NoDoc THEN userId ELSE old.userId]

\* the License record after updateDoc (fields merged into the existing
\* record) or, when there is none, after setDoc (created with userId)
NewLicense(old, keyData, clean, userId, t) ==
    [exists |-> TRUE,
     plan |-> keyData.plan,
     licenseKey |-> clean,
     expiresAt |-> keyData.expiresAt,
     isActive |-> TRUE,
     messageCount |-> 0,
     messageLimit |-> OrZero(keyData.messageLimit),
     lastResetDate |-> t,
     userId |-> IF old = NoDoc THEN userId ELSE old.userId]

\* updateDoc(userDoc.ref, {isBanned: false, isSuspended: false})
ClearedFlags(userData) ==
    [userData EXCEPT !.isBanned = FALSE, !.isSuspended = FALSE]

ActivatedVerdict(keyData, maintenanceMode) ==
    [valid |-> TRUE,
     plan |-> keyData.plan,
     messageLimit |-> OrZero(keyData.messageLimit),
     messageCount |-> 0,
     canSendMessage |-> TRUE,
     expiresAt |-> keyData.expiresAt,
     warnings |-> {},
     isBanned |-> FALSE,
     isSuspended |-> FALSE,
     alerts |-> <<>>,
     maintenanceMode |-> maintenanceMode]

\* fail: "none"; "store": a query throws; "update": updateDoc throws and
\* setDoc succeeds; "license": updateDoc and setDoc both throw; "user": the
\* update of the user document throws; "maintenance": the config read throws
\* the outcome: response, and the license / user documents after the request
ActivateOutcome(email, licenseKey, deviceId, fail) ==
    LET same == [licenses |-> licenses, users |-> users] IN
    IF email = Unset \/ licenseKey = <<>> \/ deviceId = Unset
    THEN same @@ [status |-> 400,
                  body |-> ErrorBody("Email, license key, and device ID are required")]
    ELSE IF fail = "store"
    THEN same @@ [status |-> 500, body |-> ErrorBody("License activation failed")]
    ELSE IF UsersByEmail(email) = {}
    THEN same @@ [status |-> 404, body |-> ErrorBody("User not found")]
    ELSE
    LET userId == FirstUser(email)
        clean == NormalizeKey(licenseKey)
    IN
    IF MatchingKeys(clean) = {}
    THEN same @@ [status |-> 404, body |-> ErrorBody("Invalid or inactive license key")]
    ELSE
    LET keyData == licenseKeys[FirstKey(clean)] IN
    IF OwnedByOther(keyData, userId)
    THEN same @@ [status |-> 403,
                  body |-> ErrorBody("This license key is already in use by another account")]
    ELSE IF keyData.expiresAt = Absent \/ fail = "license"
    THEN \* toISOString() of an invalid date throws before any write
         same @@ [status |-> 500, body |-> ErrorBody("License activation failed")]
    ELSE
    LET old == IF fail = "update" THEN NoDoc ELSE licenses[userId]
        written == [licenses EXCEPT ![userId] =
                        NewLicense(old, keyData, clean, userId, now)]
    IN
    IF fail = "user"
    THEN [licenses |-> written, users |-> users,
          status |-> 500, body |-> ErrorBody("License activation failed")]
    ELSE [licenses |-> written,
          users |-> [users EXCEPT ![userId] = ClearedFlags(users[userId])],
          status |-> 200,
          body |-> ActivatedVerdict(keyData, getMaintenanceMode(fail = "maintenance"))]

handleLicenseActivate(email, licenseKey, deviceId, fail) ==
    LET o == ActivateOutcome(email, licenseKey, deviceId, fail) IN
    /\ req' = Request("activate", email, licenseKey, deviceId, fail)
    /\ resp' = Response(o.status, o.body)
    /\ licenses' = o.licenses
    /\ users' = o.users
    /\ elapsed' = FALSE
    /\ repeated' = FALSE
    /\ UNCHANGED <<licenseKeys, warnings, maintenance, now, others>>

-----------------------------------------------------------------------------
(* handleIncrementMessageCount *)

newCountKeeps(licenseData) == OrZero(licenseData.messageCount)

\* (licenseData.messageCount || 0) + 1
newCount(licenseData) == OrZero(licenseData.messageCount) + 1

\* fail: "none"; "store": a read throws; "write": updateDoc throws
IncrementOutcome(email, fail) ==
    IF email = Unset
    THEN [licenses |-> licenses, status |-> 400, body |-> ErrorBody("Email is required")]
    ELSE IF fail = "store"
    THEN [licenses |-> licenses, status |-> 500,
          body |-> ErrorBody("Failed to increment message count")]
    ELSE IF UsersByEmail(email) = {}
    THEN [licenses |-> licenses, status |-> 404, body |-> ErrorBody("User not found")]
    ELSE
    LET userId == FirstUser(email)
        licenseData == licenses[userId]
    IN
    IF licenseData = NoDoc
    THEN [licenses |-> licenses, status |-> 404, body |-> ErrorBody("License not found")]
    ELSE IF fail = "write"
    THEN [licenses |-> licenses, status |-> 500,
          body |-> ErrorBody("Failed to increment message count")]
    ELSE [licenses |-> [licenses EXCEPT ![userId].messageCount = newCount(licenseData)],
          status |-> 200,
          body |-> [success |-> TRUE,
                    messageCount |-> newCount(licenseData),
                    messageLimit |-> licenseData.messageLimit]]

handleIncrementMessageCount(email, fail) ==
    LET o == IncrementOutcome(email, fail) IN
    /\ \A u \in UserIds : licenses[u] # NoDoc => licenses[u].messageCount < MaxCount
    /\ req' = Request("increment", email, <<>>, Unset, fail)
    /\ resp' = Response(o.status, o.body)
    /\ licenses' = o.licenses
    /\ elapsed' = FALSE
    /\ repeated' = FALSE
    /\ UNCHANGED <<users, licenseKeys, warnings, maintenance, now, others>>

-----------------------------------------------------------------------------
(* The clock *)

Tick ==
    /\ now < MaxNow
    /\ now' = now + 1
    /\ elapsed' = TRUE
    /\ UNCHANGED <<store, req, resp, repeated, others>>

-----------------------------------------------------------------------------
(* Initial store *)

UserProfiles ==
    { [isBanned |-> FALSE, banReason |-> Unset, isSuspended |-> FALSE, messageCount |-> Absent],
      [isBanned |-> TRUE, banReason |-> "spam", isSuspended |-> FALSE, messageCount |-> FreeLimit - 1],
      [isBanned |-> TRUE, banReason |-> Unset, isSuspended |-> TRUE, messageCount |-> Absent] }

MkUser(id, email, messageCount, isBanned, banReason, isSuspended) ==
    [id |-> id, email |-> email, messageCount |-> messageCount,
     isBanned |-> isBanned, banReason |-> banReason, isSuspended |-> isSuspended]

MkKey(key, plan, messageLimit, expiresAt, isActive, usedBy) ==
    [key |-> key, plan |-> plan, messageLimit |-> messageLimit,
     expiresAt |-> expiresAt, isActive |-> isActive, usedBy |-> usedBy]

InitialKeys ==
    <<MkKey(<<"A", "B", "1">>, "Pro", Absent, KeyExpLater, TRUE, Unset),
      MkKey(<<"B", "1">>, "Gratuit", 1, KeyExpSoon, TRUE, Unset),
      MkKey(<<"B", "B">>, "Pro", 1, KeyExpSoon, TRUE, "u2"),
      MkKey(<<"A", "A">>, "Pro", 1, KeyExpLater, FALSE, Unset),
      MkKey(<<"1", "1">>, "Pro", 1, Absent, TRUE, Unset)>>

PriorLicense ==
    [exists |-> TRUE, plan |-> "Pro", licenseKey |-> <<"A", "1">>,
     expiresAt |-> KeyExpSoon, isActive |-> TRUE, messageCount |-> 0,
     messageLimit |-> 1, lastResetDate |-> 0, userId |-> "u1"]

\* nothing overlapping, no identity-provider call, no key pair submitted
OthersIdle ==
    /\ procs = <<>>
    /\ adminClaims = <<>>
    /\ lastRole = <<>>
    /\ authResp = None
    /\ keyPair = <<>>
    /\ pairOut = <<>>

Init ==
    /\ \E p \in UserProfiles :
          users = [u \in UserIds |->
                     IF u = "u1"
                     THEN MkUser(Unset, "a@x", p.messageCount, p.isBanned,
                                 p.banReason, p.isSuspended)
                     ELSE MkUser("u2", "b@x", FreeLimit, FALSE, Unset, FALSE)]
    /\ \E l \in {NoDoc, PriorLicense} :
          licenses = [u \in UserIds |-> IF u = "u1" THEN l ELSE NoDoc]
    /\ licenseKeys = InitialKeys
    /\ warnings = [u \in UserIds |->
                      IF u = "u1"
                      THEN {[id |-> "w1", isRead |-> FALSE], [id |-> "w2", isRead |-> TRUE]}
                      ELSE {}]
    /\ maintenance = [exists |-> TRUE, enabled |-> TRUE]
    /\ now = 0
    /\ req = None
    /\ resp = Response(0, ErrorBody(Unset))
    /\ elapsed = FALSE
    /\ repeated = FALSE
    /\ OthersIdle

-----------------------------------------------------------------------------
(* Requests *)

SubmittedKeys ==
    { <<"a", "b", "-", "1">>, <<"b", "-", "1">>,
      <<"B", "B">>, <<"A", "A">>, <<"1", "1">> }

SharedKey == <<"a", "b", "-", "1">>

VerifyReq(email, deviceId, fail) ==
    [email |-> email, deviceId |-> deviceId, fail |-> fail]

ActivateReq(email, licenseKey, deviceId, fail) ==
    [email |-> email, licenseKey |-> licenseKey, deviceId |-> deviceId, fail |-> fail]

IncrementReq(email, fail) == [email |-> email, fail |-> fail]

\* a fault is injected only into a request that reaches the store
VerifyRequests ==
    {VerifyReq(Unset, "d1", "none"), VerifyReq("a@x", Unset, "none")}
    \cup {VerifyReq(e, "d1", f) : e \in Emails, f \in {"none", "store", "maintenance"}}

\* the keys whose activation reaches the writes
RedeemableKeys == {<<"a", "b", "-", "1">>, <<"b", "-", "1">>}

\* the first account submits every key, and the redeemable ones under
\* every fault
ActivateRequests ==
    {ActivateReq(Unset, SharedKey, "d1", "none"),
     ActivateReq("a@x", <<>>, "d1", "none"),
     ActivateReq("a@x", SharedKey, Unset, "none")}
    \cup {ActivateReq("ghost@x", SharedKey, "d1", f) : f \in {"none", "store"}}
    \cup {ActivateReq("a@x", k, "d1", f) :
             k \in SubmittedKeys, f \in {"none", "store"}}
    \cup {ActivateReq("a@x", k, "d1", f) :
             k \in RedeemableKeys,
             f \in {"update", "license", "user", "maintenance"}}

\* both accounts redeem the same keys
SharedRequests ==
    {ActivateReq(e, k, "d1", "none") : e \in {"a@x", "b@x"}, k \in RedeemableKeys}

IncrementRequests ==
    {IncrementReq(Unset, "none")}
    \cup {IncrementReq(e, f) : e \in {"a@x", "ghost@x"},
                              f \in {"none", "store", "write"}}

Verify == \E r \in VerifyRequests :
             handleLicenseVerify(r.email, r.deviceId, r.fail)

Activate == \E r \in ActivateRequests :
               handleLicenseActivate(r.email, r.licenseKey, r.deviceId, r.fail)

Increment == \E r \in IncrementRequests :
                handleIncrementMessageCount(r.email, r.fail)

Next == Verify \/ Activate \/ Increment \/ Tick

Spec == Init /\ [][Next]_vars

\* two accounts redeeming keys, one request after another
ActivateShared == \E r \in SharedRequests :
                     handleLicenseActivate(r.email, r.licenseKey, r.deviceId, r.fail)

NextShared == ActivateShared \/ Increment \/ Tick

SpecShared == Init /\ [][NextShared]_vars

-----------------------------------------------------------------------------
(* Verdicts over a range of License records *)

\* License records of both plans, expiring within a day, in three days and
\* in eight, with every counter and ceiling up to MaxCount
VerdictLicenses ==
    {[PriorLicense EXCEPT !.plan = pl, !.expiresAt = e,
                          !.messageCount = c, !.messageLimit = l] :
        pl \in {"Pro", "Gratuit"},
        e \in {KeyExpSoon, 3 * DayLen, KeyExpLater},
        c \in 0..MaxCount, l \in 0..MaxCount}

InitVerdict ==
    /\ \E b \in BOOLEAN, sp \in BOOLEAN :
          users = [u \in UserIds |->
                     IF u = "u1"
                     THEN MkUser(Unset, "a@x", Absent, b,
                                 IF sp THEN Unset ELSE "spam", sp)
                     ELSE MkUser("u2", "b@x", FreeLimit, FALSE, Unset, FALSE)]
    /\ \E l \in VerdictLicenses :
          licenses = [u \in UserIds |-> IF u = "u1" THEN l ELSE NoDoc]
    /\ licenseKeys = InitialKeys
    /\ warnings = [u \in UserIds |->
                      IF u = "u1" THEN {[id |-> "w1", isRead |-> FALSE]} ELSE {}]
    /\ maintenance = [exists |-> TRUE, enabled |-> TRUE]
    /\ now = 0
    /\ req = None
    /\ resp = Response(0, ErrorBody(Unset))
    /\ elapsed = FALSE
    /\ repeated = FALSE
    /\ OthersIdle

NextVerdict == Verify \/ Tick

SpecVerdict == InitVerdict /\ [][NextVerdict]_vars

-----------------------------------------------------------------------------
(* lib/adminAuth: verifyAdminToken, isAdminUser, setAdminRole, removeAdminRole *)

\* values of the admin custom claim: the boolean true, the boolean false,
\* the string "true" (truthy, but not === true), or no admin claim
AdminTrue == "true"
AdminFalse == "false"
AdminString == "'true'"
AdminUndefined == "undefined"

\* customClaims is undefined, or an object with or without an admin claim
NoClaims == [present |-> FALSE]
Claims(admin) == [present |-> TRUE, admin |-> admin]

\* the accounts of the identity provider, and a uid it does not know
AuthUids == {"u1", "u2"}
AllUids == AuthUids \cup {"ghost"}

BearerPrefix == <<"B", "e", "a", "r", "e", "r", " ">>

\* req.headers.authorization is undefined
NoHeader == <<"undefined">>

\* authHeader.startsWith("Bearer ")
StartsWithBearer(authHeader) ==
    /\ Len(authHeader) >= Len(BearerPrefix)
    /\ SubSeq(authHeader, 1, Len(BearerPrefix)) = BearerPrefix

\* authHeader.substring(7)
TokenOf(authHeader) == SubSeq(authHeader, 8, Len(authHeader))

\* the ID tokens the provider accepts, with what they decode to
DecodedToken(uid, email, customClaims) ==
    [uid |-> uid, email |-> email, customClaims |-> customClaims]

IssuedTokens ==
    { <<<<"t", "1">>, DecodedToken("u1", "a@x", Claims(AdminTrue))>>,
      <<<<"t", "2">>, DecodedToken("u2", "b@x", Claims(AdminFalse))>>,
      <<<<"t", "3">>, DecodedToken("u2", "b@x", Claims(AdminString))>>,
      <<<<"t", "4">>, DecodedToken("u1", "a@x", NoClaims)>>,
      <<<<"t", "5">>, DecodedToken("u2", "b@x", Claims(AdminUndefined))>> }

\* getAuth().verifyIdToken(token): the decoded token, or a rejection when
\* the token is not accepted or the provider cannot be reached
Rejected == [rejected |-> TRUE]

verifyIdToken(token, providerFails) ==
    IF providerFails \/ ~(\E e \in IssuedTokens : e[1] = token)
    THEN Rejected
    ELSE (CHOOSE e \in IssuedTokens : e[1] = token)[2]

IsAdminClaimTruthy(customClaims) ==
    customClaims.present /\ customClaims.admin \in {AdminTrue, AdminString}

\* (customClaims || {}).admin === true
IsAdminClaim(customClaims) ==
    customClaims.present /\ customClaims.admin = AdminTrue

\* what the caller of an adminAuth function observes: the value returned,
\* or threw when the promise rejects
AuthResponse(op, arg, providerFails, threw, result) ==
    [op |-> op, arg |-> arg, providerFails |-> providerFails,
     threw |-> threw, result |-> result]

verifyAdminTokenResult(authHeader, providerFails) ==
    IF authHeader = NoHeader \/ ~StartsWithBearer(authHeader)
    THEN [isAdmin |-> FALSE]
    ELSE LET decodedToken == verifyIdToken(TokenOf(authHeader), providerFails)
         IN  IF decodedToken = Rejected
             THEN [isAdmin |-> FALSE]
             ELSE [isAdmin |-> IsAdminClaim(decodedToken.customClaims),
                   uid |-> decodedToken.uid,
                   email |-> decodedToken.email]

verifyAdminToken(authHeader, providerFails) ==
    /\ authResp' = AuthResponse("verifyAdminToken", authHeader, providerFails, FALSE,
                                verifyAdminTokenResult(authHeader, providerFails))
    /\ UNCHANGED <<store, now, serial, procs, adminClaims, lastRole, keyPair, pairOut>>

\* getAuth().getUser(uid) rejects for an unknown uid or an unreachable provider
isAdminUser(uid, providerFails) ==
    /\ authResp' = AuthResponse("isAdminUser", uid, providerFails, FALSE,
                                IF providerFails \/ uid \notin AuthUids THEN FALSE
                                ELSE IsAdminClaim(adminClaims[uid]))
    /\ UNCHANGED <<store, now, serial, procs, adminClaims, lastRole, keyPair, pairOut>>

RoleClaimsAlwaysAdmin(op) == Claims(AdminTrue)

\* {admin: true} in setAdminRole, {admin: false} in removeAdminRole
RoleClaims(op) ==
    IF op = "setAdminRole" THEN Claims(AdminTrue) ELSE Claims(AdminFalse)

\* getAuth().setCustomUserClaims(uid, claims); a rejection is logged and
\* thrown again
setRole(op, uid, providerFails) ==
    IF providerFails \/ uid \notin AuthUids
    THEN /\ authResp' = AuthResponse(op, uid, providerFails, TRUE, FALSE)
         /\ UNCHANGED <<adminClaims, lastRole>>
    ELSE /\ authResp' = AuthResponse(op, uid, providerFails, FALSE, TRUE)
         /\ adminClaims' = [adminClaims EXCEPT ![uid] = RoleClaims(op)]
         /\ lastRole' = [lastRole EXCEPT ![uid] = op]

setAdminRole(uid, providerFails) ==
    /\ setRole("setAdminRole", uid, providerFails)
    /\ UNCHANGED <<store, now, serial, procs, keyPair, pairOut>>

removeAdminRole(uid, providerFails) ==
    /\ setRole("removeAdminRole", uid, providerFails)
    /\ UNCHANGED <<store, now, serial, procs, keyPair, pairOut>>

AuthHeaders ==
    { NoHeader,
      BearerPrefix \o <<"t", "1">>, BearerPrefix \o <<"t", "2">>,
      BearerPrefix \o <<"t", "3">>, BearerPrefix \o <<"t", "4">>,
      BearerPrefix \o <<"t", "5">>, BearerPrefix \o <<"t", "9">>,
      BearerPrefix, <<"B", "e", "a", "r", "e", "r">>,
      <<"b", "e", "a", "r", "e", "r", " ", "t", "1">>,
      <<"B", "a", "s", "i", "c", " ", "t", "1">>,
      <<"t", "1">> }

InitAuth ==
    /\ users = [u \in UserIds |->
                   IF u = "u1" THEN MkUser(Unset, "a@x", Absent, FALSE, Unset, FALSE)
                   ELSE MkUser("u2", "b@x", FreeLimit, FALSE, Unset, FALSE)]
    /\ licenses = [u \in UserIds |-> NoDoc]
    /\ licenseKeys = InitialKeys
    /\ warnings = [u \in UserIds |-> {}]
    /\ maintenance = [exists |-> TRUE, enabled |-> TRUE]
    /\ now = 0
    /\ req = None
    /\ resp = Response(0, ErrorBody(Unset))
    /\ elapsed = FALSE
    /\ repeated = FALSE
    /\ procs = <<>>
    /\ adminClaims = [u \in AuthUids |->
                         IF u = "u1" THEN NoClaims ELSE Claims(AdminUndefined)]
    /\ lastRole = [u \in AllUids |-> "none"]
    /\ authResp = None
    /\ keyPair = <<>>
    /\ pairOut = <<>>

VerifyToken == \E h \in AuthHeaders, f \in BOOLEAN : verifyAdminToken(h, f)

IsAdmin == \E u \in AllUids, f \in BOOLEAN : isAdminUser(u, f)

SetAdmin == \E u \in AllUids, f \in BOOLEAN : setAdminRole(u, f)

RemoveAdmin == \E u \in AllUids, f \in BOOLEAN : removeAdminRole(u, f)

NextAuth == VerifyToken \/ IsAdmin \/ SetAdmin \/ RemoveAdmin

SpecAuth == InitAuth /\ [][NextAuth]_vars

-----------------------------------------------------------------------------
(* Activation of two spellings of a key against the same store *)

MaxKeyLen == 3

KeyChars == {"b", "B", "1", "-"}

\* the non-empty keys a client can submit
TypedKeys == UNION {[1..n -> KeyChars] : n \in 1..MaxKeyLen}

\* one call of handleLicenseActivate: the documents its key query returns
\* and what the call answers and writes
KeyOutcome(licenseKey) ==
    [docs |-> MatchingKeys(NormalizeKey(licenseKey)),
     outcome |-> ActivateOutcome("a@x", licenseKey, "d1", "none")]

InitKeys ==
    /\ users = [u \in UserIds |->
                   IF u = "u1" THEN MkUser(Unset, "a@x", Absent, TRUE, "spam", FALSE)
                   ELSE MkUser("u2", "b@x", FreeLimit, FALSE, Unset, FALSE)]
    /\ licenses = [u \in UserIds |-> IF u = "u1" THEN PriorLicense ELSE NoDoc]
    /\ licenseKeys = InitialKeys
    /\ warnings = [u \in UserIds |-> {}]
    /\ maintenance = [exists |-> TRUE, enabled |-> TRUE]
    /\ now = 0
    /\ req = None
    /\ resp = Response(0, ErrorBody(Unset))
    /\ elapsed = FALSE
    /\ repeated = FALSE
    /\ procs = <<>>
    /\ adminClaims = <<>>
    /\ lastRole = <<>>
    /\ authResp = None
    /\ keyPair \in TypedKeys \X TypedKeys
    /\ pairOut = <<>>

ActivatePair ==
    /\ pairOut = <<>>
    /\ pairOut' = <<KeyOutcome(keyPair[1]), KeyOutcome(keyPair[2])>>
    /\ UNCHANGED <<store, now, serial, procs, adminClaims, lastRole, authResp, keyPair>>

NextKeys == ActivatePair

SpecKeys == InitKeys /\ [][NextKeys]_vars

-----------------------------------------------------------------------------
(* Overlapping requests: every await of a handler is a separate step *)

ProcIds == {1, 2}

\* a request in flight: its body, its position, and what it has read so far
Proc(op, email, licenseKey) ==
    [op |-> op, email |-> email, licenseKey |-> licenseKey, pc |-> "findUser",
     userId |-> Unset, licenseData |-> NoDoc, keyData |-> NoDoc,
     status |-> 0, body |-> ErrorBody(Unset)]

\* res.status(status).json(body) ends the request
Respond(p, status, body) ==
    [procs[p] EXCEPT !.pc = "done", !.status = status, !.body = body]

IncrementWrittenAtomic(current, licenseData) ==
    [current EXCEPT !.messageCount = newCount(current)]

\* updateDoc(licenseRef, {messageCount: newCount}): the count computed from
\* the license that was read is merged into the document as it is now
IncrementWritten(current, licenseData) ==
    [current EXCEPT !.messageCount = newCount(licenseData)]

\* await getDocs(usersQuery), in activate and in increment
FindUser(p) ==
    /\ procs[p].pc = "findUser"
    /\ procs' = [procs EXCEPT ![p] =
          IF UsersByEmail(procs[p].email) = {}
          THEN Respond(p, 404, ErrorBody("User not found"))
          ELSE [procs[p] EXCEPT
                  !.userId = FirstUser(procs[p].email),
                  !.pc = IF procs[p].op = "increment" THEN "readLicense"
                         ELSE "findKey"]]
    /\ UNCHANGED <<store, now, serial, adminClaims, lastRole, authResp,
                   keyPair, pairOut>>

\* await getDoc(licenseRef) in increment
IncReadLicense(p) ==
    /\ procs[p].pc = "readLicense"
    /\ procs' = [procs EXCEPT ![p] =
          IF licenses[procs[p].userId] = NoDoc
          THEN Respond(p, 404, ErrorBody("License not found"))
          ELSE [procs[p] EXCEPT !.licenseData = licenses[procs[p].userId],
                                !.pc = "write"]]
    /\ UNCHANGED <<store, now, serial, adminClaims, lastRole, authResp,
                   keyPair, pairOut>>

\* await updateDoc(licenseRef, {messageCount: newCount}), then the response
IncWrite(p) ==
    /\ procs[p].pc = "write"
    /\ LET uid == procs[p].userId
           licenseData == procs[p].licenseData
       IN  IF licenses[uid] = NoDoc
           THEN /\ procs' = [procs EXCEPT ![p] =
                      Respond(p, 500, ErrorBody("Failed to increment message count"))]
                /\ UNCHANGED licenses
           ELSE /\ licenses' = [licenses EXCEPT ![uid] =
                      IncrementWritten(licenses[uid], licenseData)]
                /\ procs' = [procs EXCEPT ![p] =
                      Respond(p, 200, [success |-> TRUE,
                                       messageCount |-> newCount(licenseData),
                                       messageLimit |-> licenseData.messageLimit])]
    /\ UNCHANGED <<users, licenseKeys, warnings, maintenance, now, serial,
                   adminClaims, lastRole, authResp, keyPair, pairOut>>

\* await getDocs(licenseKeysQuery) and the checks up to the first write
ActFindKey(p) ==
    /\ procs[p].pc = "findKey"
    /\ LET clean == NormalizeKey(procs[p].licenseKey) IN
       procs' = [procs EXCEPT ![p] =
          IF MatchingKeys(clean) = {}
          THEN Respond(p, 404, ErrorBody("Invalid or inactive license key"))
          ELSE IF OwnedByOther(licenseKeys[FirstKey(clean)], procs[p].userId)
          THEN Respond(p, 403,
                 ErrorBody("This license key is already in use by another account"))
          ELSE IF licenseKeys[FirstKey(clean)].expiresAt = Absent
          THEN Respond(p, 500, ErrorBody("License activation failed"))
          ELSE [procs[p] EXCEPT !.keyData = licenseKeys[FirstKey(clean)],
                                !.pc = "updateLicense"]]
    /\ UNCHANGED <<store, now, serial, adminClaims, lastRole, authResp,
                   keyPair, pairOut>>

\* await updateDoc(userLicenseRef, {...}); it throws when there is no
\* document, and the catch handler goes on to setDoc
ActUpdateLicense(p) ==
    /\ procs[p].pc = "updateLicense"
    /\ LET uid == procs[p].userId IN
       IF licenses[uid] = NoDoc
       THEN /\ procs' = [procs EXCEPT ![p].pc = "createLicense"]
            /\ UNCHANGED licenses
       ELSE /\ licenses' = [licenses EXCEPT ![uid] =
                  NewLicense(licenses[uid], procs[p].keyData,
                             NormalizeKey(procs[p].licenseKey), uid, now)]
            /\ procs' = [procs EXCEPT ![p].pc = "updateUser"]
    /\ UNCHANGED <<users, licenseKeys, warnings, maintenance, now, serial,
                   adminClaims, lastRole, authResp, keyPair, pairOut>>

\* await setDoc(userLicenseRef, {..., userId}) replaces the document
ActCreateLicense(p) ==
    /\ procs[p].pc = "createLicense"
    /\ LET uid == procs[p].userId IN
       licenses' = [licenses EXCEPT ![uid] =
                      NewLicense(NoDoc, procs[p].keyData,
                                 NormalizeKey(procs[p].licenseKey), uid, now)]
    /\ procs' = [procs EXCEPT ![p].pc = "updateUser"]
    /\ UNCHANGED <<users, licenseKeys, warnings, maintenance, now, serial,
                   adminClaims, lastRole, authResp, keyPair, pairOut>>

\* await updateDoc(userDoc.ref, {isBanned: false, isSuspended: false})
ActUpdateUser(p) ==
    /\ procs[p].pc = "updateUser"
    /\ users' = [users EXCEPT ![procs[p].userId] = ClearedFlags(users[procs[p].userId])]
    /\ procs' = [procs EXCEPT ![p].pc = "respond"]
    /\ UNCHANGED <<licenses, licenseKeys, warnings, maintenance, now, serial,
                   adminClaims, lastRole, authResp, keyPair, pairOut>>

\* await getMaintenanceMode(), then the response
ActRespond(p) ==
    /\ procs[p].pc = "respond"
    /\ procs' = [procs EXCEPT ![p] =
          Respond(p, 200, ActivatedVerdict(procs[p].keyData, getMaintenanceMode(FALSE)))]
    /\ UNCHANGED <<store, now, serial, adminClaims, lastRole, authResp,
                   keyPair, pairOut>>

\* the requests that overlap: increments and activations of one account
ConcurrentRequests ==
    {Proc("increment", "a@x", <<>>)}
    \cup {Proc("activate", "a@x", k) : k \in RedeemableKeys}

InitConc ==
    /\ users = [u \in UserIds |->
                   IF u = "u1" THEN MkUser(Unset, "a@x", Absent, TRUE, "spam", FALSE)
                   ELSE MkUser("u2", "b@x", FreeLimit, FALSE, Unset, FALSE)]
    /\ \E l \in {NoDoc} \cup {[PriorLicense EXCEPT !.messageCount = c] :
                                 c \in 0..MaxCount} :
          licenses = [u \in UserIds |-> IF u = "u1" THEN l ELSE NoDoc]
    /\ licenseKeys = InitialKeys
    /\ warnings = [u \in UserIds |-> {}]
    /\ maintenance = [exists |-> TRUE, enabled |-> TRUE]
    /\ now = 0
    /\ req = None
    /\ resp = Response(0, ErrorBody(Unset))
    /\ elapsed = FALSE
    /\ repeated = FALSE
    /\ procs \in [ProcIds -> ConcurrentRequests]
    /\ adminClaims = <<>>
    /\ lastRole = <<>>
    /\ authResp = None
    /\ keyPair = <<>>
    /\ pairOut = <<>>

NextConc ==
    \E p \in ProcIds :
        \/ FindUser(p)
        \/ IncReadLicense(p)
        \/ IncWrite(p)
        \/ ActFindKey(p)
        \/ ActUpdateLicense(p)
        \/ ActCreateLicense(p)
        \/ ActUpdateUser(p)
        \/ ActRespond(p)

SpecConc == InitConc /\ [][NextConc]_vars

-----------------------------------------------------------------------------
(* Properties *)

\* the user the last request resolved to, and that user's License record
ReqUser == FirstUser(req.email)
ReqLicense == licenses[LicenseOwner(ReqUser)]

\* the last response is a verdict of verify, and the store and the clock
\* are as verify read them
FreshVerdict == req.op = "verify" /\ resp.status = 200 /\ ~elapsed

HasAlert(body, title) == \E i \in 1..Len(body.alerts) : body.alerts[i].title = title

\* C1: an activate whose matched active LicenseKey is used by another user
\* answers 403 and leaves the License, the User and the LicenseKey records
\* as they were.
C1_ForbiddenKeepsRecords ==
    [][( /\ req'.op = "activate" /\ ~elapsed'
         /\ req'.email # Unset /\ req'.licenseKey # <<>> /\ req'.deviceId # Unset
         /\ req'.fail # "store"
         /\ UsersByEmail(req'.email) # {}
         /\ MatchingKeys(NormalizeKey(req'.licenseKey)) # {}
         /\ LET k == licenseKeys[FirstKey(NormalizeKey(req'.licenseKey))]
            IN  k.usedBy # Unset /\ k.usedBy # FirstUser(req'.email) )
       => /\ resp'.status = 403
          /\ licenses' = licenses
          /\ users' = users
          /\ licenseKeys' = licenseKeys]_vars

C1_Witness ==
    /\ req.op = "activate" /\ resp.status = 403 /\ req.email = "a@x"
    /\ licenseKeys[FirstKey(NormalizeKey(req.licenseKey))].usedBy = "u2"

\* C2: no two distinct users ever both hold a License record written from
\* the same key.
C2_KeyExclusive ==
    \A u \in UserIds, v \in UserIds :
        (u # v /\ licenses[u] # NoDoc /\ licenses[v] # NoDoc)
        => licenses[u].licenseKey # licenses[v].licenseKey

\* C3: verify on a paid-plan License whose expiresAt is earlier than now
\* reports valid = false and canSendMessage = false and carries the
\* non-dismissible critical "license expired" modal.
C3_ExpiredPaidInvalid ==
    (FreshVerdict /\ ReqLicense # NoDoc /\ ReqLicense.plan # "Gratuit"
        /\ ReqLicense.expiresAt < now)
    => /\ resp.body.valid = FALSE
       /\ resp.body.canSendMessage = FALSE
       /\ \E i \in 1..Len(resp.body.alerts) :
             /\ resp.body.alerts[i].title = "Licence Expiree"
             /\ resp.body.alerts[i].type = "modal"
             /\ resp.body.alerts[i].severity = "critical"
             /\ resp.body.alerts[i].dismissible = FALSE

C3_Witness ==
    /\ FreshVerdict /\ ReqLicense # NoDoc
    /\ ReqLicense.plan = "Pro" /\ ReqLicense.expiresAt < now
    /\ resp.body.valid = FALSE

\* C4: on a "Gratuit" License expiry never invalidates: a user neither
\* banned nor suspended with messageCount < messageLimit is valid whether
\* or not now > expiresAt, and the "license expired" alert is never emitted.
C4_FreePlanNeverExpires ==
    (FreshVerdict /\ ReqLicense # NoDoc /\ ReqLicense.plan = "Gratuit")
    => /\ ~HasAlert(resp.body, "Licence Expiree")
       /\ ( /\ ~users[ReqUser].isBanned
            /\ ~users[ReqUser].isSuspended
            /\ ReqLicense.messageCount < ReqLicense.messageLimit )
          => resp.body.valid = TRUE

C4_Witness ==
    /\ FreshVerdict /\ ReqLicense # NoDoc
    /\ ReqLicense.plan = "Gratuit" /\ now > ReqLicense.expiresAt
    /\ ReqLicense.messageCount < ReqLicense.messageLimit
    /\ resp.body.valid = TRUE

\* C5: for a user with isBanned = true the verdict of verify contains the
\* banned alert (modal, critical, non-dismissible, with the stored or the
\* default reason), whether the License record is present or missing.
C5_BannedAlwaysAlerted ==
    (FreshVerdict /\ users[ReqUser].isBanned)
    => \E i \in 1..Len(resp.body.alerts) :
          /\ resp.body.alerts[i].title = "Compte Banni"
          /\ resp.body.alerts[i].type = "modal"
          /\ resp.body.alerts[i].severity = "critical"
          /\ resp.body.alerts[i].dismissible = FALSE
          /\ resp.body.alerts[i].reason =
                IF users[ReqUser].banReason = Unset THEN "Non specifiee"
                ELSE users[ReqUser].banReason

\* C6: in the verdict for a License record the "expires soon" banner is
\* present exactly when the license is not an expired paid-plan license and
\* 0 < daysRemaining <= 7, and never when daysRemaining <= 0.
C6_BannerWindow ==
    (FreshVerdict /\ ReqLicense # NoDoc)
    => LET days == getDaysRemaining(ReqLicense.expiresAt, now)
           expiredPaid == now > ReqLicense.expiresAt /\ ReqLicense.plan # "Gratuit"
       IN  /\ HasAlert(resp.body, "Licence Expires Bientot")
                <=> (~expiredPaid /\ 0 < days /\ days <= 7)
           /\ \A i \in 1..Len(resp.body.alerts) :
                 resp.body.alerts[i].title = "Licence Expires Bientot"
                 => /\ resp.body.alerts[i].days = days
                    /\ resp.body.alerts[i].type = "banner"
                    /\ resp.body.alerts[i].dismissible = TRUE
           /\ days <= 0 => ~HasAlert(resp.body, "Licence Expires Bientot")

C6_Witness ==
    /\ FreshVerdict /\ ReqLicense # NoDoc
    /\ (ReqLicense.expiresAt - now) = 7 * DayLen
    /\ HasAlert(resp.body, "Licence Expires Bientot")

\* C7 (as stated): two verify calls for the same email with no request in
\* between yield identical verdicts in every field.
C7_IdenticalVerdicts ==
    [][( /\ req.op = "verify" /\ resp.status = 200 /\ req.fail = "none"
         /\ req'.op = "verify" /\ resp'.status = 200 /\ req'.fail = "none"
         /\ req'.email = req.email /\ ~elapsed' )
       => resp'.body = resp.body]_vars

\* C7 (amended): two verify calls for the same email with no request in
\* between agree on plan, messageLimit, messageCount, warnings, isBanned and
\* isSuspended, on expiresAt when a License record exists, and on
\* maintenanceMode when the config read failed in both or in neither; they
\* agree on every field when moreover the clock did not advance in between.
C7_RepeatableVerdict ==
    [][( /\ req.op = "verify" /\ resp.status = 200
         /\ req'.op = "verify" /\ resp'.status = 200
         /\ req'.email = req.email /\ ~elapsed' )
       => /\ resp'.body.plan = resp.body.plan
          /\ resp'.body.messageLimit = resp.body.messageLimit
          /\ resp'.body.messageCount = resp.body.messageCount
          /\ resp'.body.warnings = resp.body.warnings
          /\ resp'.body.isBanned = resp.body.isBanned
          /\ resp'.body.isSuspended = resp.body.isSuspended
          /\ licenses[LicenseOwner(FirstUser(req.email))] # NoDoc
               => resp'.body.expiresAt = resp.body.expiresAt
          /\ (req'.fail = req.fail)
               => resp'.body.maintenanceMode = resp.body.maintenanceMode
          /\ (req'.fail = req.fail /\ ~elapsed)
               => resp'.body = resp.body]_vars

C7_Witness ==
    /\ FreshVerdict /\ repeated /\ now > 0
    /\ ReqLicense # NoDoc /\ resp.body.warnings # {}

\* C8: verify on an existing user without License record answers the
\* free-tier default: plan "Gratuit", messageLimit 10, messageCount the
\* user's legacy counter (0 when absent), canSendMessage = (messageCount <
\* 10), no alerts, isBanned / isSuspended copied from the User record.
C8_NoLicenseDefault ==
    (FreshVerdict /\ ReqLicense = NoDoc)
    => LET legacy == IF users[ReqUser].messageCount = Absent THEN 0
                     ELSE users[ReqUser].messageCount
       IN  /\ resp.body.plan = "Gratuit"
           /\ resp.body.messageLimit = 10
           /\ resp.body.messageCount = legacy
           /\ resp.body.canSendMessage = (legacy < 10)
           /\ resp.body.alerts = <<>>
           /\ resp.body.isBanned = users[ReqUser].isBanned
           /\ resp.body.isSuspended = users[ReqUser].isSuspended

C8_Witness ==
    /\ FreshVerdict /\ ReqLicense = NoDoc
    /\ users[ReqUser].messageCount = 10
    /\ resp.body.canSendMessage = FALSE

\* C9: after a successful activate the user's License record has plan,
\* messageLimit (0 when the key has none) and expiresAt of the key,
\* isActive = true and messageCount = 0, and the User record has isBanned =
\* false and isSuspended = false.
C9_ActivationResets ==
    [][(req'.op = "activate" /\ ~elapsed' /\ resp'.status = 200)
       => LET uid == FirstUser(req'.email)
              k == licenseKeys[FirstKey(NormalizeKey(req'.licenseKey))]
              lic == licenses'[uid]
          IN  /\ lic # NoDoc
              /\ lic.plan = k.plan
              /\ lic.messageLimit = (IF k.messageLimit = Absent THEN 0
                                     ELSE k.messageLimit)
              /\ lic.expiresAt = k.expiresAt
              /\ lic.isActive = TRUE
              /\ lic.messageCount = 0
              /\ users'[uid].isBanned = FALSE
              /\ users'[uid].isSuspended = FALSE]_vars

C9_Witness ==
    /\ req.op = "activate" /\ resp.status = 200 /\ ~elapsed
    /\ users[ReqUser].banReason = "spam" /\ ~users[ReqUser].isBanned
    /\ ReqLicense.messageCount = 0 /\ ReqLicense.lastResetDate > 0

\* C10: run one after another, a successful incrementMessageCount raises
\* the stored messageCount by exactly 1, returns the stored value and the
\* record's messageLimit and changes nothing else; without License record
\* it answers 404 and writes nothing.
C10_IncrementByOne ==
    [][(req'.op = "increment" /\ ~elapsed')
       => /\ resp'.status = 200
               => LET uid == FirstUser(req'.email)
                      old == licenses[uid]
                  IN  /\ old # NoDoc
                      /\ licenses' = [licenses EXCEPT
                                         ![uid].messageCount = old.messageCount + 1]
                      /\ resp'.body.messageCount = licenses'[uid].messageCount
                      /\ resp'.body.messageLimit = old.messageLimit
                      /\ users' = users
                      /\ licenseKeys' = licenseKeys
          /\ ( /\ req'.email # Unset /\ req'.fail # "store"
               /\ UsersByEmail(req'.email) # {}
               /\ licenses[FirstUser(req'.email)] = NoDoc )
               => /\ resp'.status = 404
                  /\ licenses' = licenses
                  /\ users' = users
                  /\ licenseKeys' = licenseKeys]_vars

C10_Witness ==
    /\ req.op = "increment" /\ resp.status = 200 /\ ~elapsed
    /\ ReqLicense.messageCount = 1 /\ resp.body.messageCount = 1

\* both requests are increments that answered 200 after reading the same
\* stored messageCount
BothReadSame ==
    /\ \A p \in ProcIds : /\ procs[p].op = "increment"
                           /\ procs[p].pc = "done" /\ procs[p].status = 200
    /\ procs[1].licenseData.messageCount = procs[2].licenseData.messageCount

\* C11: two overlapping increments of one user that both read the stored
\* messageCount n both answer messageCount = n + 1 and leave n + 1 stored,
\* not n + 2: one update is lost.
C11_LostUpdate ==
    (DOMAIN procs = ProcIds /\ BothReadSame)
    => LET n == procs[1].licenseData.messageCount
       IN  /\ procs[1].body.messageCount = n + 1
           /\ procs[2].body.messageCount = n + 1
           /\ licenses["u1"].messageCount = n + 1

C11_Witness ==
    /\ DOMAIN procs = ProcIds /\ BothReadSame
    /\ licenses["u1"].messageCount = procs[1].licenseData.messageCount + 1
    /\ procs[1].body.messageCount = procs[2].body.messageCount

\* C12: in the verdict for a License record, canSendMessage = valid AND
\* messageCount < messageLimit AND NOT expired; so canSendMessage = true
\* implies valid, not expired, neither banned nor suspended, and the stored
\* messageCount strictly below the stored messageLimit.
C12_CanSendGate ==
    (FreshVerdict /\ ReqLicense # NoDoc)
    => /\ resp.body.canSendMessage =
             ( /\ resp.body.valid
               /\ ReqLicense.messageCount < ReqLicense.messageLimit
               /\ ~(now > ReqLicense.expiresAt) )
       /\ resp.body.canSendMessage = TRUE
            => /\ resp.body.valid = TRUE
               /\ now <= ReqLicense.expiresAt
               /\ ~users[ReqUser].isBanned
               /\ ~users[ReqUser].isSuspended
               /\ ReqLicense.messageCount < ReqLicense.messageLimit

C12_Witness ==
    /\ FreshVerdict /\ ReqLicense # NoDoc
    /\ resp.body.canSendMessage = TRUE
    /\ ReqLicense.messageCount = MaxCount - 1

\* C13: verifyAdminToken fails closed: a missing credential, one that does
\* not start with "Bearer ", or a failing verify call gives exactly
\* {isAdmin: false} and nothing is thrown; isAdmin is true only for a token
\* the provider verified whose admin claim is the boolean true.
C13_TokenFailsClosed ==
    authResp.op = "verifyAdminToken"
    => LET h == authResp.arg
           bearer == /\ h # NoHeader /\ Len(h) >= 7
                     /\ \A i \in 1..7 : h[i] = BearerPrefix[i]
           accepted == {e \in IssuedTokens :
                          bearer /\ ~authResp.providerFails
                          /\ h = BearerPrefix \o e[1]}
       IN  /\ authResp.threw = FALSE
           /\ accepted = {} => authResp.result = [isAdmin |-> FALSE]
           /\ authResp.result.isAdmin = TRUE
                => \E e \in accepted : e[2].customClaims = Claims(AdminTrue)

C13_Witness ==
    /\ authResp.op = "verifyAdminToken"
    /\ authResp.arg = BearerPrefix \o <<"t", "1">>
    /\ authResp.providerFails
    /\ authResp.result = [isAdmin |-> FALSE]

RoleOps == {"setAdminRole", "removeAdminRole"}

\* C14: isAdminUser(uid) answers true exactly when the most recent
\* successful role call for that uid was setAdminRole; a role call the
\* provider rejects throws and leaves every admin claim as it was;
\* isAdminUser answers false, without throwing, on any provider error.
C14_RoleCalls ==
    [][ /\ authResp'.op = "isAdminUser"
          => /\ authResp'.threw = FALSE
             /\ authResp'.result =
                  (/\ ~authResp'.providerFails
                   /\ authResp'.arg \in AuthUids
                   /\ lastRole'[authResp'.arg] = "setAdminRole")
        /\ authResp'.op \in RoleOps
          => /\ authResp'.threw
                  = (authResp'.providerFails \/ authResp'.arg \notin AuthUids)
             /\ authResp'.threw => adminClaims' = adminClaims ]_vars

C14_Witness ==
    /\ authResp.op = "isAdminUser"
    /\ authResp.result = FALSE
    /\ ~authResp.providerFails
    /\ authResp.arg = "u1"
    /\ lastRole["u1"] = "removeAdminRole"
    /\ lastRole["u2"] = "setAdminRole"

\* the same letters and digits in the same order, whatever the dashes and
\* the letter case
SameButDashesAndCase(k1, k2) ==
    LET NoDash(c) == c # "-"
        a == SelectSeq(k1, NoDash)
        b == SelectSeq(k2, NoDash)
    IN  /\ Len(a) = Len(b)
        /\ \A i \in 1..Len(a) : a[i] = b[i] \/ {a[i], b[i]} = {"b", "B"}

\* C15: the key looked up has every '-' removed and every letter in upper
\* case, normalising it again changes nothing, and two submitted keys that
\* differ only in dashes or letter case reach the same LicenseKey record
\* and the same activation outcome.
C15_KeyNormalised ==
    pairOut # <<>>
    => /\ \A i \in 1..2 :
            LET clean == NormalizeKey(keyPair[i]) IN
            /\ \A j \in 1..Len(clean) : clean[j] \in {"B", "1"}
            /\ SameButDashesAndCase(clean, keyPair[i])
            /\ NormalizeKey(clean) = clean
       /\ SameButDashesAndCase(keyPair[1], keyPair[2]) => pairOut[1] = pairOut[2]

C15_Witness ==
    /\ pairOut # <<>>
    /\ keyPair = << <<"b", "-", "1">>, <<"-", "B", "1">> >>
    /\ pairOut[1].outcome.status = 200
    /\ pairOut[2].outcome.status = 200
    /\ pairOut[1].docs = {2}

\* C16: every stored License record has messageCount <= messageLimit,
\* whatever activate and incrementMessageCount requests were served.
C16_CountWithinLimit ==
    \A u \in UserIds :
        licenses[u] # NoDoc
        => OrZero(licenses[u].messageCount) <= licenses[u].messageLimit

\* position of an alert in the fixed order
AlertRank(alert) ==
    CASE alert.title \in {"Licence Expiree", "Licence Expires Bientot"} -> 1
      [] alert.title = "Compte Banni" -> 2
      [] alert.title = "Compte Suspendu" -> 3

\* C17: in a verdict for a user with a License record the alerts come in
\* the order expiry-related (expired modal or expires-soon banner, never
\* both), banned modal, suspended modal; the banned and the suspended alert
\* are present exactly when the user's flag is set; a paid license that
\* expires in 3 days, with no ban or suspension and the count below the
\* limit, is valid, can send, and carries the banner as its only alert.
C17_AlertOrder ==
    (FreshVerdict /\ ReqLicense # NoDoc)
    => LET alerts == resp.body.alerts
           left == ReqLicense.expiresAt - now
       IN  /\ \A i, j \in 1..Len(alerts) :
                i < j => AlertRank(alerts[i]) < AlertRank(alerts[j])
           /\ HasAlert(resp.body, "Compte Banni") = users[ReqUser].isBanned
           /\ HasAlert(resp.body, "Compte Suspendu") = users[ReqUser].isSuspended
           /\ ( /\ ReqLicense.plan # "Gratuit"
                /\ 2 * DayLen < left /\ left <= 3 * DayLen
                /\ ~users[ReqUser].isBanned /\ ~users[ReqUser].isSuspended
                /\ ReqLicense.messageCount < ReqLicense.messageLimit )
              => /\ resp.body.valid
                 /\ resp.body.canSendMessage
                 /\ alerts = <<ExpiresSoonAlert(3)>>

C17_Witness ==
    /\ FreshVerdict
    /\ ReqLicense # NoDoc
    /\ ReqLicense.plan = "Pro"
    /\ ReqLicense.expiresAt - now = 3 * DayLen
    /\ ReqLicense.messageCount < ReqLicense.messageLimit
    /\ ~users[ReqUser].isBanned /\ ~users[ReqUser].isSuspended
    /\ Len(resp.body.alerts) = 1
    /\ resp.body.alerts[1].type = "banner"

\* the fields of a verdict on which activate and verify are compared
VerdictCore(body) ==
    [valid |-> body.valid, canSendMessage |-> body.canSendMessage,
     plan |-> body.plan, messageLimit |-> body.messageLimit,
     messageCount |-> body.messageCount, expiresAt |-> body.expiresAt]

\* C18: a verify for the same user served right after a successful
\* activate, with nothing written and no time passed in between, reports
\* the same valid, canSendMessage, plan, messageLimit, messageCount and
\* expiresAt as the activate did.
C18_ActivateAgreesWithVerify ==
    [][ ( /\ req.op = "activate" /\ resp.status = 200 /\ ~elapsed
          /\ req'.op = "verify" /\ resp'.status = 200 /\ ~elapsed'
          /\ req'.email = req.email )
        => VerdictCore(resp'.body) = VerdictCore(resp.body) ]_vars

\* C19: an activate that answers 400, 403, 404 or 500 leaves the user's
\* License record and User record as they were: the License write and the
\* User write take effect together or not at all.
C19_FailedActivateWritesNothing ==
    [][ (req'.op = "activate" /\ ~elapsed' /\ resp'.status \in {400, 403, 404, 500})
        => licenses' = licenses /\ users' = users ]_vars

\* C20: when one activate and one incrementMessageCount for the same user
\* overlap in any way and both answer 200, the stored messageCount ends as
\* 0 or 1.
C20_ResetNotOverwritten ==
    ( /\ DOMAIN procs = ProcIds
      /\ {procs[p].op : p \in ProcIds} = {"activate", "increment"}
      /\ \A p \in ProcIds : procs[p].pc = "done" /\ procs[p].status = 200 )
    => licenses["u1"].messageCount \in {0, 1}
====
